---- MODULE Spec2Model ----
(***************************************************************************)
(* A model of @flapili/form (src/src/index.ts): the synchronous form       *)
(* controller useForm and the asynchronous, externally-owned-data          *)
(* controller useFormComponent, together with the pure error lookup        *)
(* getErrors that both share.                                              *)
(*                                                                         *)
(* JavaScript objects live in a heap (object identity matters: reset of    *)
(* the asynchronous variant copies references, not values).  The schema    *)
(* is the README's schema (a required name, transformed to upper case)     *)
(* with the name inside a nested object and an optional date beside it, so *)
(* that the JSON round trip of deepClone and the shallow Object.assign of  *)
(* reset have something to act on.                                         *)
(***************************************************************************)
EXTENDS Integers, Sequences, FiniteSets, TLC

VARIABLES
  heap,          \* object id -> object (a function from its own keys to values)
  data,          \* useForm: the ref `data`, holding the id of the FormData root
  parseResult,   \* useForm: the computed parseResult; useFormComponent: the ref
  status,        \* useFormComponent: the ref `status`
  displayErrors, \* the ref `displayErrors` (two forms: every such ref)
  changedAt,     \* the ref `changedAt`
  pending,       \* useFormComponent: safeParseAsync calls not yet resolved
  queued,        \* useFormComponent: the watcher's job is scheduled
  pc,            \* useFormComponent: "created" | "setup" | "mounted"
  ctx,           \* useFormComponent: the object handed to provide()
  options,       \* useFormComponent: the options argument (two forms: of each)
  last,          \* the last call made on the controller and how it ended
  query,         \* getErrors: the path last queried and the issues returned
  taken,         \* the JSON tree of the caller's data as it was at construction
  variant        \* which controller this run constructed

vars == <<heap, data, parseResult, status, displayErrors, changedAt, pending,
          queued, pc, ctx, options, last, query, taken, variant>>

(***************************************************************************)
(* Bounds of the model.                                                    *)
(***************************************************************************)
MaxPending == 2    \* validations in flight at once
MaxIssues == 2     \* issues of a parse result handed to getErrors alone
MaxTime == 1       \* timestamps a caller may write into changedAt

(***************************************************************************)
(* JavaScript values.                                                      *)
(***************************************************************************)
Null == [t |-> "null"]
Undefined == [t |-> "undefined"]
Str(s) == [t |-> "string", v |-> s]
Num(n) == [t |-> "number", n |-> n]
DateOf(iso) == [t |-> "date", v |-> iso]
Obj(x) == [t |-> "object", v |-> x]

Epoch == "2024-01-01T00:00:00.000Z"

Names == {"", "Bob"}
Whens == {Undefined, DateOf(Epoch)}

\* obj[k] of JavaScript: a missing key reads as undefined
Get(obj, k) == IF k \in DOMAIN obj THEN obj[k] ELSE Undefined

\* String.prototype.toUpperCase on the names of the model
toUpperCase(s) == IF s = "Bob" THEN "BOB" ELSE s

(***************************************************************************)
(* deepClone: JSON.parse(JSON.stringify(obj)).  stringify yields the JSON  *)
(* tree of an object: a key whose value is undefined is dropped, a Date    *)
(* becomes its ISO string, a nested object is serialised in turn.  parse   *)
(* builds fresh objects from the tree; the fresh object for key k of the   *)
(* object stored at id r is stored at id r.k.                              *)
(***************************************************************************)
RECURSIVE stringify(_, _)
stringify(h, id) ==
  LET obj == h[id]
      kept == {k \in DOMAIN obj : obj[k].t # "undefined"}
  IN  [k \in kept |->
         CASE obj[k].t = "date" -> Str(obj[k].v)
           [] obj[k].t = "object" -> Obj(stringify(h, obj[k].v))
           [] OTHER -> obj[k]]

Child(r, k) == r \o "." \o k

\* the object built for a JSON tree: nested trees become references
Shell(r, tree) ==
  [k \in DOMAIN tree |->
     IF tree[k].t = "object" THEN Obj(Child(r, k)) ELSE tree[k]]

parse(h, r, tree) ==
  [id \in DOMAIN h |->
     IF id = r THEN Shell(r, tree)
     ELSE IF \E k \in DOMAIN tree : tree[k].t = "object" /\ id = Child(r, k)
          THEN LET k == CHOOSE k \in DOMAIN tree :
                          tree[k].t = "object" /\ id = Child(r, k)
               IN  Shell(id, tree[k].v)
          ELSE h[id]]

\* the heap after deepClone(h[src]) has been stored as a fresh object at dst
deepClone(h, src, dst) == parse(h, dst, stringify(h, src))

\* the structure reachable from an object, references followed
RECURSIVE Deep(_, _)
Deep(h, id) ==
  [k \in DOMAIN h[id] |->
     IF h[id][k].t = "object" THEN Obj(Deep(h, h[id][k].v)) ELSE h[id][k]]

(***************************************************************************)
(* The schema:                                                             *)
(*   z.object({ user: z.object({                                           *)
(*                name: z.string().min(1, 'Name is required') }),          *)
(*              when: z.date().optional() })                               *)
(*    .transform(data => ({ ...data, NAME: data.user.name.toUpperCase() }))*)
(* safeParse reads the object through the heap and collects the issues in  *)
(* the order of the schema's keys.                                         *)
(***************************************************************************)
Issue(path, message) == [path |-> path, message |-> message]

stringIssues(path, v, message) ==
  CASE v.t = "undefined" -> <<Issue(path, "Required")>>
    [] v.t # "string" -> <<Issue(path, "Expected string, received " \o v.t)>>
    [] v.v = "" -> <<Issue(path, message)>>
    [] OTHER -> <<>>

optionalDateIssues(path, v) ==
  IF v.t \in {"undefined", "date"} THEN <<>>
  ELSE <<Issue(path, "Expected date, received " \o v.t)>>

userIssues(h, v) ==
  CASE v.t = "undefined" -> <<Issue(<<Str("user")>>, "Required")>>
    [] v.t # "object" ->
         <<Issue(<<Str("user")>>, "Expected object, received " \o v.t)>>
    [] OTHER -> stringIssues(<<Str("user"), Str("name")>>,
                             Get(h[v.v], "name"), "Name is required")

schemaIssues(h, id) ==
  userIssues(h, Get(h[id], "user"))
    \o optionalDateIssues(<<Str("when")>>, Get(h[id], "when"))

\* the transformed output of an object that satisfies the schema
transform(h, id) ==
  [user |-> Obj([name |-> h[h[id].user.v].name]),
   when |-> Get(h[id], "when"),
   NAME |-> Str(toUpperCase(h[h[id].user.v].name.v))]

Success(out) == [success |-> TRUE, data |-> out]
Failure(issues) == [success |-> FALSE, error |-> [issues |-> issues]]

safeParse(h, id) ==
  IF schemaIssues(h, id) = <<>>
  THEN Success(transform(h, id))
  ELSE Failure(schemaIssues(h, id))

(***************************************************************************)
(* getErrors(...path): Array.prototype.join('.') on the issue's path and   *)
(* on the queried path, compared as strings.                               *)
(***************************************************************************)
SegmentString(seg) == IF seg.t = "number" THEN ToString(seg.n) ELSE seg.v

RECURSIVE join(_)
join(path) ==
  IF path = <<>> THEN ""
  ELSE IF Len(path) = 1 THEN SegmentString(path[1])
  ELSE SegmentString(path[1]) \o "." \o join(Tail(path))

\* a comparison of the paths segment by segment
SamePath_structural(issue, path) == issue.path = path

SamePath(issue, path) == join(issue.path) = join(path)

filterErrors(issues, path) ==
  SelectSeq(issues, LAMBDA error : SamePath(error, path))

\* useForm.getErrors
useForm_getErrors(result, path) ==
  IF result.success THEN <<>> ELSE filterErrors(result.error.issues, path)

\* the success test inverted: reading .error.errors of a success raises a
\* TypeError in place of the empty array
useFormComponent_getErrors_inverted(result, path) ==
  IF result = Null THEN <<>>
  ELSE IF ~result.success THEN <<>>
  ELSE <<Issue(path, "TypeError: Cannot read properties of undefined")>>

\* useFormComponent.getErrors
useFormComponent_getErrors(result, path) ==
  IF result = Null THEN <<>>
  ELSE IF result.success THEN <<>>
  ELSE filterErrors(result.error.issues, path)

(***************************************************************************)
(* Helpers shared by the two controllers.                                  *)
(***************************************************************************)
\* obj[k] = v of JavaScript: the key is added when missing
Set(obj, k, v) == [x \in DOMAIN obj \cup {k} |-> IF x = k THEN v ELSE obj[x]]

\* the caller's callback: records the argument it is invoked with
onSubmit(log, arg) == Append(log, arg)

\* how a call ended: the error it raised, the value it returned, the
\* arguments of the onSubmit invocations it made, and for reset and
\* toggleDisplayErrors whether the call before it was the same operation
\* (a toggleDisplayErrors also records, as `was`, the flag it found)
Ended(op, threw, ret, called, again) ==
  [op |-> op, threw |-> threw, ret |-> ret, called |-> called, again |-> again]

Done(op, threw, ret, called) ==
  Ended(op, threw, ret, called,
        op \in {"reset", "toggleDisplayErrors"} /\ last.op = op)

Plain(op) == Done(op, Null, Undefined, <<>>)

Fresh(op) == Ended(op, Null, Undefined, <<>>, FALSE)

NoQuery == [path |-> <<>>, errors |-> <<>>, by |-> "none"]

(***************************************************************************)
(* useForm({ schema, initialData, onSubmit })                              *)
(***************************************************************************)
SyncIds == {"initialData", "initialData.user", "data", "data.user"}

\* the caller's initialData before useForm is called
CallerData(root, n, w) ==
  [id \in {root, Child(root, "user")} |->
     IF id = root
     THEN [user |-> Obj(Child(root, "user")), when |-> w]
     ELSE [name |-> Str(n)]]

Extend(h, ids) ==
  [id \in DOMAIN h \cup ids |-> IF id \in DOMAIN h THEN h[id] ELSE <<>>]

useForm_Init ==
  /\ variant = "useForm"
  /\ \E n \in Names, w \in Whens :
       heap = deepClone(Extend(CallerData("initialData", n, w), SyncIds),
                        "initialData", "data")
  /\ data = "data"
  /\ parseResult = safeParse(heap, data)
  /\ displayErrors = FALSE
  /\ changedAt = Null
  /\ last = Fresh("useForm")
  /\ taken = stringify(heap, "initialData")
  /\ status = "none" /\ pending = <<>> /\ queued = FALSE /\ pc = "none"
  /\ ctx = Null /\ options = Null /\ query = NoQuery

isValid == parseResult.success
hasChanged == changedAt # Null

\* data.value.<key> = v, by the caller or a v-model binding
useForm_mutate(k, v) ==
  /\ variant = "useForm"
  /\ heap' = [heap EXCEPT ![data] = Set(@, k, v)]
  /\ parseResult' = safeParse(heap', data)
  /\ last' = Plain("mutate")
  /\ UNCHANGED <<data, status, displayErrors, changedAt, pending, queued, pc,
                 ctx, options, query, taken, variant>>

\* data.value.user.name = v
useForm_mutateName(n) ==
  /\ variant = "useForm"
  /\ heap' = [heap EXCEPT ![heap[data].user.v] = Set(@, "name", Str(n))]
  /\ parseResult' = safeParse(heap', data)
  /\ last' = Plain("mutate")
  /\ UNCHANGED <<data, status, displayErrors, changedAt, pending, queued, pc,
                 ctx, options, query, taken, variant>>

\* changedAt.value = t, by the caller: useForm returns the ref itself
useForm_writeChangedAt(t) ==
  /\ variant = "useForm"
  /\ changedAt' = Num(t)
  /\ last' = Plain("writeChangedAt")
  /\ UNCHANGED <<heap, data, parseResult, status, displayErrors, pending,
                 queued, pc, ctx, options, query, taken, variant>>

\* submit that fails without raising the flag
useForm_submit_silent ==
  /\ variant = "useForm"
  /\ LET res == safeParse(heap, data)
     IN  IF res.success
         THEN last' = Done("submit", Null, Undefined, onSubmit(<<>>, res.data))
         ELSE last' = Plain("submit")
  /\ UNCHANGED <<heap, data, parseResult, status, displayErrors, changedAt,
                 pending, queued, pc, ctx, options, query, taken, variant>>

\* submit that hands onSubmit the raw FormData instead of the parsed output
useForm_submit_raw ==
  /\ variant = "useForm"
  /\ LET res == safeParse(heap, data)
     IN  IF res.success
         THEN /\ last' = Done("submit", Null, Undefined,
                              onSubmit(<<>>, Deep(heap, data)))
              /\ displayErrors' = displayErrors
         ELSE /\ displayErrors' = TRUE
              /\ last' = Plain("submit")
  /\ UNCHANGED <<heap, data, parseResult, status, changedAt, pending, queued,
                 pc, ctx, options, query, taken, variant>>

useForm_submit ==
  /\ variant = "useForm"
  /\ LET res == safeParse(heap, data)
     IN  IF res.success
         THEN /\ last' = Done("submit", Null, Undefined,
                              onSubmit(<<>>, res.data))
              /\ displayErrors' = displayErrors
         ELSE /\ displayErrors' = TRUE
              /\ last' = Plain("submit")
  /\ UNCHANGED <<heap, data, parseResult, status, changedAt, pending, queued,
                 pc, ctx, options, query, taken, variant>>

\* reset that forgets to clear the flag
useForm_reset_keepFlag ==
  /\ variant = "useForm"
  /\ heap' = deepClone(heap, "initialData", "data")
  /\ data' = "data"
  /\ parseResult' = safeParse(heap', data')
  /\ changedAt' = Null
  /\ last' = Plain("reset")
  /\ UNCHANGED <<status, displayErrors, pending, queued, pc, ctx, options,
                 query, taken, variant>>

useForm_reset ==
  /\ variant = "useForm"
  /\ heap' = deepClone(heap, "initialData", "data")
  /\ data' = "data"
  /\ parseResult' = safeParse(heap', data')
  /\ changedAt' = Null
  /\ displayErrors' = FALSE
  /\ last' = Plain("reset")
  /\ UNCHANGED <<status, pending, queued, pc, ctx, options, query,
                 taken, variant>>

\* a toggle that can only switch the display on
useForm_toggleDisplayErrors_show ==
  /\ variant = "useForm"
  /\ displayErrors' = TRUE
  /\ last' = Plain("toggleDisplayErrors") @@ [was |-> displayErrors]
  /\ UNCHANGED <<heap, data, parseResult, status, changedAt, pending, queued,
                 pc, ctx, options, query, taken, variant>>

useForm_toggleDisplayErrors ==
  /\ variant = "useForm"
  /\ displayErrors' = ~displayErrors
  /\ last' = Plain("toggleDisplayErrors") @@ [was |-> displayErrors]
  /\ UNCHANGED <<heap, data, parseResult, status, changedAt, pending, queued,
                 pc, ctx, options, query, taken, variant>>

useForm_Next ==
  \/ \E w \in Whens : useForm_mutate("when", w)
  \/ \E n \in Names : useForm_mutateName(n)
  \/ \E t \in 1..MaxTime : useForm_writeChangedAt(t)
  \/ useForm_submit
  \/ useForm_reset
  \/ useForm_toggleDisplayErrors

(***************************************************************************)
(* useFormComponent(schema, input, onSubmit, options)                      *)
(***************************************************************************)
AsyncIds == {"input", "input.user", "initialInput", "initialInput.user"}

\* schema.safeParseAsync(v): the object is read when the call is made and
\* the promise resolves with that result later
safeParseAsync(h, id) == safeParse(h, id)

\* the value onSubmitCallback returns
Returned == Str("submitted to backend")

useFormComponent_Init ==
  /\ variant = "useFormComponent"
  /\ \E n \in Names, w \in Whens :
       heap = deepClone(Extend(CallerData("input", n, w), AsyncIds),
                        "input", "initialInput")
  /\ \E m \in BOOLEAN : options = [mutateDisplayErrorsOnError |-> m]
  /\ status = "parsing"
  /\ parseResult = Null
  /\ displayErrors = FALSE
  /\ changedAt = Null
  /\ pending = <<>>
  /\ queued = FALSE
  /\ pc = "created"
  /\ ctx = Null
  /\ last = Fresh("useFormComponent")
  /\ taken = stringify(heap, "initialInput")
  /\ data = "input" /\ query = NoQuery

\* useFormComponent returns the component alone: submit, reset and
\* toggleDisplayErrors reach a caller through the context that setup provides
\* and through the slot it renders
Exposed == pc # "created"

\* a write through the reactive proxy schedules the deep watcher's job once
\* the watcher exists, when the write changed something
Trigger(h1, h2) == queued \/ (pc = "mounted" /\ h1 # h2)

\* the watcher's callback up to its await
WatcherStart(h) ==
  /\ status' = "parsing"
  /\ pending' = Append(pending, safeParseAsync(h, "input"))

\* Component.setup: provide(injectionSymbolCtx, { ... })
useFormComponent_setup ==
  /\ variant = "useFormComponent"
  /\ pc = "created"
  /\ pc' = "setup"
  /\ ctx' = [changedAt |-> changedAt,
             displayErrors |-> displayErrors,
             parseResult |-> parseResult,
             hasChanged |-> hasChanged,
             status |-> status]
  /\ UNCHANGED <<heap, data, parseResult, status, displayErrors, changedAt,
                 pending, queued, options, last, query, taken, variant>>

\* a mount whose first validation is done on the spot with schema.safeParse
useFormComponent_mounted_sync ==
  /\ variant = "useFormComponent"
  /\ pc = "setup"
  /\ pc' = "mounted"
  /\ parseResult' = safeParse(heap, "input")
  /\ status' = IF parseResult'.success THEN "valid" ELSE "invalid"
  /\ UNCHANGED <<heap, data, displayErrors, changedAt, pending, queued,
                 ctx, options, last, query, taken, variant>>

\* onMounted: watch(input, ..., { deep: true, immediate: true })
useFormComponent_mounted ==
  /\ variant = "useFormComponent"
  /\ pc = "setup"
  /\ pc' = "mounted"
  /\ WatcherStart(heap)
  /\ UNCHANGED <<heap, data, parseResult, displayErrors, changedAt, queued,
                 ctx, options, last, query, taken, variant>>

\* a watcher that drops the validations still in flight when it starts one
useFormComponent_watcher_cancel ==
  /\ variant = "useFormComponent"
  /\ queued
  /\ Len(pending) < MaxPending
  /\ queued' = FALSE
  /\ status' = "parsing"
  /\ pending' = <<safeParseAsync(heap, "input")>>
  /\ UNCHANGED <<heap, data, parseResult, displayErrors, changedAt, pc, ctx,
                 options, last, query, taken, variant>>

\* the scheduler runs the watcher's job
useFormComponent_watcher ==
  /\ variant = "useFormComponent"
  /\ queued
  /\ Len(pending) < MaxPending
  /\ queued' = FALSE
  /\ WatcherStart(heap)
  /\ UNCHANGED <<heap, data, parseResult, displayErrors, changedAt, pc, ctx,
                 options, last, query, taken, variant>>

\* a resolution that stores the result and forgets the status
useFormComponent_resolve_noStatus(i) ==
  /\ variant = "useFormComponent"
  /\ i \in 1..Len(pending)
  /\ parseResult' = pending[i]
  /\ pending' = SubSeq(pending, 1, i - 1)
                  \o SubSeq(pending, i + 1, Len(pending))
  /\ UNCHANGED <<heap, data, status, displayErrors, changedAt, queued, pc,
                 ctx, options, last, query, taken, variant>>

\* a resolution that sets the status and loses the result
useFormComponent_resolve_noResult(i) ==
  /\ variant = "useFormComponent"
  /\ i \in 1..Len(pending)
  /\ status' = IF pending[i].success THEN "valid" ELSE "invalid"
  /\ pending' = SubSeq(pending, 1, i - 1)
                  \o SubSeq(pending, i + 1, Len(pending))
  /\ UNCHANGED <<heap, data, parseResult, displayErrors, changedAt, queued,
                 pc, ctx, options, last, query, taken, variant>>

\* the await of one validation resolves: the callback's two last statements
useFormComponent_resolve(i) ==
  /\ variant = "useFormComponent"
  /\ i \in 1..Len(pending)
  /\ parseResult' = pending[i]
  /\ status' = IF pending[i].success THEN "valid" ELSE "invalid"
  /\ pending' = SubSeq(pending, 1, i - 1)
                  \o SubSeq(pending, i + 1, Len(pending))
  /\ UNCHANGED <<heap, data, displayErrors, changedAt, queued, pc, ctx,
                 options, last, query, taken, variant>>

\* input.<key> = v, by the caller or a v-model binding
useFormComponent_mutate(k, v) ==
  /\ variant = "useFormComponent"
  /\ heap' = [heap EXCEPT !["input"] = Set(@, k, v)]
  /\ queued' = Trigger(heap, heap')
  /\ last' = Plain("mutate")
  /\ UNCHANGED <<data, parseResult, status, displayErrors, changedAt, pending,
                 pc, ctx, options, query, taken, variant>>

\* a write whose watcher runs at once, as with { flush: 'sync' }
useFormComponent_mutateName_sync(n) ==
  /\ variant = "useFormComponent"
  /\ Len(pending) < MaxPending
  /\ heap' = [heap EXCEPT ![heap["input"].user.v] = Set(@, "name", Str(n))]
  /\ IF pc = "mounted" /\ heap' # heap
     THEN WatcherStart(heap')
     ELSE UNCHANGED <<status, pending>>
  /\ last' = Plain("mutate")
  /\ UNCHANGED <<data, parseResult, displayErrors, changedAt, queued,
                 pc, ctx, options, query, taken, variant>>

\* input.user.name = v
useFormComponent_mutateName(n) ==
  /\ variant = "useFormComponent"
  /\ heap' = [heap EXCEPT ![heap["input"].user.v] = Set(@, "name", Str(n))]
  /\ queued' = Trigger(heap, heap')
  /\ last' = Plain("mutate")
  /\ UNCHANGED <<data, parseResult, status, displayErrors, changedAt, pending,
                 pc, ctx, options, query, taken, variant>>

\* submit that raises the flag whatever the option says
useFormComponent_submit_always ==
  /\ variant = "useFormComponent"
  /\ Exposed
  /\ LET res == safeParse(heap, "input")
     IN  IF res.success = FALSE
         THEN /\ displayErrors' = TRUE
              /\ last' = Done("submit", res.error, Undefined, <<>>)
         ELSE /\ displayErrors' = displayErrors
              /\ last' = Done("submit", Null, Returned,
                              onSubmit(<<>>, res.data))
  /\ UNCHANGED <<heap, data, parseResult, status, changedAt, pending, queued,
                 pc, ctx, options, query, taken, variant>>

\* submit that trusts the asynchronous parseResult instead of parsing anew
useFormComponent_submit_stale ==
  /\ variant = "useFormComponent"
  /\ Exposed
  /\ LET res == IF parseResult = Null THEN Failure(<<>>) ELSE parseResult
     IN  IF res.success = FALSE
         THEN /\ displayErrors' = IF options.mutateDisplayErrorsOnError
                                  THEN TRUE ELSE displayErrors
              /\ last' = Done("submit", res.error, Undefined, <<>>)
         ELSE /\ displayErrors' = displayErrors
              /\ last' = Done("submit", Null, Returned,
                              onSubmit(<<>>, res.data))
  /\ UNCHANGED <<heap, data, parseResult, status, changedAt, pending, queued,
                 pc, ctx, options, query, taken, variant>>

useFormComponent_submit ==
  /\ variant = "useFormComponent"
  /\ Exposed
  /\ LET res == safeParse(heap, "input")
     IN  IF res.success = FALSE
         THEN /\ displayErrors' = IF options.mutateDisplayErrorsOnError
                                  THEN TRUE ELSE displayErrors
              /\ last' = Done("submit", res.error, Undefined, <<>>)
         ELSE /\ displayErrors' = displayErrors
              /\ last' = Done("submit", Null, Returned,
                              onSubmit(<<>>, res.data))
  /\ UNCHANGED <<heap, data, parseResult, status, changedAt, pending, queued,
                 pc, ctx, options, query, taken, variant>>

\* Object.assign(target, source): every own key of source is written to target
assign(h, target, source) ==
  [h EXCEPT ![target] =
     [k \in DOMAIN h[target] \cup DOMAIN h[source] |->
        IF k \in DOMAIN h[source] THEN h[source][k] ELSE h[target][k]]]

\* the heap without the object input.user once input no longer refers to it
collect(h) ==
  IF h["input"].user.v = "input.user" THEN h
  ELSE [h EXCEPT !["input.user"] = <<>>]

\* a reset that announces a validation itself and leaves it to the watcher
useFormComponent_reset_parsing ==
  /\ variant = "useFormComponent"
  /\ Exposed
  /\ changedAt' = Null
  /\ displayErrors' = FALSE
  /\ status' = "parsing"
  /\ heap' = collect(assign(heap, "input", "initialInput"))
  /\ queued' = Trigger(heap, assign(heap, "input", "initialInput"))
  /\ last' = Plain("reset")
  /\ UNCHANGED <<data, parseResult, pending, pc, ctx, options, query,
                 taken, variant>>

useFormComponent_reset ==
  /\ variant = "useFormComponent"
  /\ Exposed
  /\ changedAt' = Null
  /\ displayErrors' = FALSE
  /\ heap' = collect(assign(heap, "input", "initialInput"))
  /\ queued' = Trigger(heap, assign(heap, "input", "initialInput"))
  /\ last' = Plain("reset")
  /\ UNCHANGED <<data, parseResult, status, pending, pc, ctx, options, query,
                 taken, variant>>

useFormComponent_toggleDisplayErrors ==
  /\ variant = "useFormComponent"
  /\ Exposed
  /\ displayErrors' = ~displayErrors
  /\ last' = Plain("toggleDisplayErrors") @@ [was |-> displayErrors]
  /\ UNCHANGED <<heap, data, parseResult, status, changedAt, pending, queued,
                 pc, ctx, options, query, taken, variant>>

useFormComponent_Next ==
  \/ useFormComponent_setup
  \/ useFormComponent_mounted
  \/ useFormComponent_watcher
  \/ \E i \in 1..MaxPending : useFormComponent_resolve(i)
  \/ \E w \in Whens : useFormComponent_mutate("when", w)
  \/ \E n \in Names : useFormComponent_mutateName(n)
  \/ useFormComponent_submit
  \/ useFormComponent_reset
  \/ useFormComponent_toggleDisplayErrors

(***************************************************************************)
(* getErrors on its own: a parse result drawn from the results a schema    *)
(* can produce (paths with string and number segments, a key that holds a  *)
(* dot, the empty path of a form-level issue), queried along any path.     *)
(***************************************************************************)
Paths ==
  { <<>>,
    <<Str("a")>>,
    <<Str("a"), Str("b")>>,
    <<Str("a.b")>>,
    <<Str("a"), Num(0)>>,
    <<Str("a"), Str("0")>>,
    <<Str("b")>> }

IssuePool == {Issue(p, "Invalid") : p \in Paths \ {<<Str("b")>>}}

IssueLists == UNION {[1..n -> IssuePool] : n \in 1..MaxIssues}

Results ==
  {Null, Success(Undefined)} \cup {Failure(issues) : issues \in IssueLists}

getErrors_Init ==
  /\ variant = "getErrors"
  /\ parseResult \in Results
  /\ query = NoQuery
  /\ heap = <<>> /\ data = "none" /\ status = "none" /\ displayErrors = FALSE
  /\ changedAt = Null /\ pending = <<>> /\ queued = FALSE /\ pc = "none"
  /\ ctx = Null /\ options = Null /\ last = Fresh("none") /\ taken = <<>>

\* getErrors(...path) of useForm, whose parseResult is never null
getErrors_useForm(path) ==
  /\ variant = "getErrors"
  /\ parseResult # Null
  /\ query' = [by |-> "useForm", path |-> path,
               errors |-> useForm_getErrors(parseResult, path)]
  /\ UNCHANGED <<heap, data, parseResult, status, displayErrors, changedAt,
                 pending, queued, pc, ctx, options, last, taken, variant>>

\* getErrors(...path) of useFormComponent
getErrors_useFormComponent(path) ==
  /\ variant = "getErrors"
  /\ query' = [by |-> "useFormComponent", path |-> path,
               errors |-> useFormComponent_getErrors(parseResult, path)]
  /\ UNCHANGED <<heap, data, parseResult, status, displayErrors, changedAt,
                 pending, queued, pc, ctx, options, last, taken, variant>>

getErrors_Next ==
  \/ \E path \in Paths : getErrors_useForm(path)
  \/ \E path \in Paths : getErrors_useFormComponent(path)

(***************************************************************************)
(* Two useFormComponent controllers, A and B, built by one caller who may  *)
(* hand both the same ref as options.displayErrors.  Here displayErrors    *)
(* holds the value of every ref there is (the caller's and the one each    *)
(* controller would create for itself), options holds the options of each  *)
(* controller, and the heap holds both inputs and both snapshots.  Both    *)
(* components are set up.  The validations are left out: no statement of   *)
(* the watcher reads or writes displayErrors.                              *)
(***************************************************************************)
Forms == {"A", "B"}

Input(c) == "input" \o c
InitialInput(c) == "initialInput" \o c

TwoIds ==
  UNION {{Input(c), Child(Input(c), "user"),
          InitialInput(c), Child(InitialInput(c), "user")} : c \in Forms}

\* a controller that starts its own ref from the value of the ref it is given
displayErrorsRef_copy(c) == c

\* const displayErrors = options?.displayErrors ?? ref(false): the ref the
\* controller c reads and writes
displayErrorsRef(c) ==
  IF options[c].displayErrors # Undefined
  THEN options[c].displayErrors.v
  ELSE c

\* displayErrors.value, as the controller c reads it
Read(c) == displayErrors[displayErrorsRef(c)]

twoForms_Init ==
  /\ variant = "twoForms"
  /\ \E nA, nB \in Names :
       heap = deepClone(
                deepClone(
                  Extend(CallerData(Input("A"), nA, Undefined)
                           @@ CallerData(Input("B"), nB, Undefined), TwoIds),
                  Input("A"), InitialInput("A")),
                Input("B"), InitialInput("B"))
  /\ \E given \in {Undefined, Obj("caller")}, mA, mB \in BOOLEAN :
       options = [A |-> [displayErrors |-> Obj("caller"),
                         mutateDisplayErrorsOnError |-> mA],
                  B |-> [displayErrors |-> given,
                         mutateDisplayErrorsOnError |-> mB]]
  /\ \E b \in BOOLEAN : displayErrors = [caller |-> b, A |-> FALSE, B |-> FALSE]
  /\ changedAt = Null
  /\ pc = "setup"
  /\ last = Fresh("useFormComponent")
  /\ data = "none" /\ parseResult = Null /\ status = "parsing"
  /\ pending = <<>> /\ queued = FALSE /\ ctx = Null /\ query = NoQuery
  /\ taken = <<>>

\* the caller writes the ref it owns
twoForms_writeDisplayErrors(b) ==
  /\ variant = "twoForms"
  /\ displayErrors' = [displayErrors EXCEPT !["caller"] = b]
  /\ last' = Plain("writeDisplayErrors") @@ [by |-> "caller"]
  /\ UNCHANGED <<heap, data, parseResult, status, changedAt, pending, queued,
                 pc, ctx, options, query, taken, variant>>

\* submit of the controller c
twoForms_submit(c) ==
  /\ variant = "twoForms"
  /\ LET res == safeParse(heap, Input(c))
     IN  IF res.success = FALSE
         THEN /\ displayErrors' =
                   IF options[c].mutateDisplayErrorsOnError
                   THEN [displayErrors EXCEPT ![displayErrorsRef(c)] = TRUE]
                   ELSE displayErrors
              /\ last' = Done("submit", res.error, Undefined, <<>>)
                           @@ [by |-> c]
         ELSE /\ displayErrors' = displayErrors
              /\ last' = Done("submit", Null, Returned,
                              onSubmit(<<>>, res.data)) @@ [by |-> c]
  /\ UNCHANGED <<heap, data, parseResult, status, changedAt, pending, queued,
                 pc, ctx, options, query, taken, variant>>

\* reset of the controller c (it records, as `was`, the flag it found)
twoForms_reset(c) ==
  /\ variant = "twoForms"
  /\ changedAt' = Null
  /\ displayErrors' = [displayErrors EXCEPT ![displayErrorsRef(c)] = FALSE]
  /\ heap' = assign(heap, Input(c), InitialInput(c))
  /\ last' = Plain("reset") @@ [by |-> c, was |-> Read(c)]
  /\ UNCHANGED <<data, parseResult, status, pending, queued, pc, ctx, options,
                 query, taken, variant>>

\* toggleDisplayErrors of the controller c
twoForms_toggleDisplayErrors(c) ==
  /\ variant = "twoForms"
  /\ displayErrors' =
       [displayErrors EXCEPT ![displayErrorsRef(c)] = ~Read(c)]
  /\ last' = Plain("toggleDisplayErrors") @@ [by |-> c]
  /\ UNCHANGED <<heap, data, parseResult, status, changedAt, pending, queued,
                 pc, ctx, options, query, taken, variant>>

twoForms_Next ==
  \/ \E b \in BOOLEAN : twoForms_writeDisplayErrors(b)
  \/ \E c \in Forms : twoForms_submit(c)
  \/ \E c \in Forms : twoForms_reset(c)
  \/ \E c \in Forms : twoForms_toggleDisplayErrors(c)

(***************************************************************************)
(* Specifications: every controller together, and each one alone.          *)
(***************************************************************************)
Init ==
  useForm_Init \/ useFormComponent_Init \/ getErrors_Init \/ twoForms_Init
Next ==
  useForm_Next \/ useFormComponent_Next \/ getErrors_Next \/ twoForms_Next
Spec == Init /\ [][Next]_vars

useForm_Spec == useForm_Init /\ [][useForm_Next]_vars
useFormComponent_Spec == useFormComponent_Init /\ [][useFormComponent_Next]_vars
getErrors_Spec == getErrors_Init /\ [][getErrors_Next]_vars
twoForms_Spec == twoForms_Init /\ [][twoForms_Next]_vars

\* useFormComponent with FormData left alone once the component is mounted,
\* and every validation promise resolving in the end
Untouched == pc = "mounted" => heap' = heap

\* (no write reaches the watcher after the mount, so its job never runs)
useFormComponent_QuietNext ==
  \/ useFormComponent_setup
  \/ useFormComponent_mounted
  \/ \E i \in 1..MaxPending : useFormComponent_resolve(i)
  \/ \E w \in Whens : useFormComponent_mutate("when", w) /\ Untouched
  \/ \E n \in Names : useFormComponent_mutateName(n) /\ Untouched
  \/ useFormComponent_submit
  \/ useFormComponent_reset /\ Untouched
  \/ useFormComponent_toggleDisplayErrors

useFormComponent_Quiet ==
  /\ useFormComponent_Init
  /\ [][useFormComponent_QuietNext]_vars
  /\ WF_vars(\E i \in 1..MaxPending : useFormComponent_resolve(i))

\* useFormComponent with the scheduler running every job it holds and every
\* validation promise resolving in the end
useFormComponent_Fair ==
  /\ useFormComponent_Init
  /\ [][useFormComponent_Next]_vars
  /\ WF_vars(useFormComponent_watcher)
  /\ WF_vars(\E i \in 1..MaxPending : useFormComponent_resolve(i))

(***************************************************************************)
(* Properties.                                                             *)
(***************************************************************************)
\* the root of the controller's FormData and its structure
FormRoot == IF variant = "useForm" THEN data ELSE "input"
FormData == Deep(heap, FormRoot)

\* C1: useForm: a submit() made while FormData fails the schema invokes
\* onSubmit not at all, leaves displayErrors true and changes neither
\* FormData nor any other object.
C1_InvalidSubmitSync ==
  [][(useForm_submit /\ ~safeParse(heap, data).success)
       => /\ last'.called = <<>>
          /\ displayErrors' = TRUE
          /\ heap' = heap /\ data' = data]_vars

\* a failed submit of a form that was mutated since construction (the caller
\* wrote changedAt, and no reset cleared it)
C1_Witness ==
  /\ variant = "useForm"
  /\ last.op = "submit" /\ last.called = <<>>
  /\ ~safeParse(heap, data).success
  /\ displayErrors
  /\ changedAt # Null
  /\ stringify(heap, data) # taken

\* C10: useForm: a submit() made while FormData satisfies the schema invokes
\* onSubmit once, with the schema's transformed output of the FormData of
\* that moment, and changes neither FormData nor displayErrors nor changedAt.
C10_ValidSubmitSync ==
  [][(useForm_submit /\ schemaIssues(heap, data) = <<>>)
       => /\ Len(last'.called) = 1
          /\ DOMAIN last'.called[1] = {"user", "when", "NAME"}
          /\ last'.called[1].user.v.name = heap[heap[data].user.v].name
          /\ last'.called[1].when = Get(heap[data], "when")
          /\ last'.called[1].NAME.v = toUpperCase(heap[heap[data].user.v].name.v)
          /\ heap' = heap /\ data' = data
          /\ displayErrors' = displayErrors
          /\ changedAt' = changedAt]_vars

\* a successful submit of a form showing its errors and marked as changed:
\* onSubmit received the upper-cased name, and both refs kept their values
C10_Witness ==
  /\ variant = "useForm"
  /\ last.op = "submit"
  /\ Len(last.called) = 1
  /\ last.called[1].NAME = Str("BOB")
  /\ last.called[1].when = DateOf(Epoch)
  /\ displayErrors
  /\ changedAt # Null

\* C2: useFormComponent: a submit() made while FormData fails the schema
\* raises the validator's error object and does not invoke onSubmit;
\* displayErrors becomes true when mutateDisplayErrorsOnError is set and
\* keeps its value otherwise.
C2_InvalidSubmitAsync ==
  [][(useFormComponent_submit /\ ~safeParse(heap, "input").success)
       => /\ last'.threw = safeParse(heap, "input").error
          /\ last'.called = <<>>
          /\ displayErrors' = IF options.mutateDisplayErrorsOnError
                              THEN TRUE ELSE displayErrors]_vars

\* a submit that raised an error and, the option being off, left the flag off
C2_Witness ==
  /\ variant = "useFormComponent"
  /\ last.op = "submit" /\ last.threw # Null
  /\ last.threw.issues # <<>>
  /\ ~options.mutateDisplayErrorsOnError
  /\ ~displayErrors
  /\ pc = "mounted"

\* C3: in both variants every reset() leaves displayErrors false and
\* changedAt null, and a reset() that directly follows a reset() changes
\* neither FormData nor displayErrors nor changedAt.
C3_ResetIdempotent ==
  [][(useForm_reset \/ useFormComponent_reset)
       => /\ displayErrors' = FALSE
          /\ changedAt' = Null
          /\ last.op = "reset"
               => /\ Deep(heap', FormRoot') = FormData
                  /\ displayErrors' = displayErrors
                  /\ changedAt' = changedAt]_vars

\* a second reset in a row, of a form whose data differ from the data at
\* construction
C3_Witness ==
  /\ last.op = "reset" /\ last.again
  /\ variant = "useFormComponent"
  /\ stringify(heap, "input") # taken
  /\ ~displayErrors /\ changedAt = Null

\* C4: useFormComponent: whenever reset() has just returned, every field of
\* the snapshot taken at construction holds in FormData a value structurally
\* equal to the value it had in that snapshot.
C4_ResetRestoresSnapshot ==
  (variant = "useFormComponent" /\ last.op = "reset")
    => \A k \in DOMAIN taken :
         k \in DOMAIN FormData /\ FormData[k] = taken[k]

\* a structure without the keys that hold undefined: obj.k reads the same
\* whether k is missing or holds undefined
RECURSIVE Defined(_)
Defined(tree) ==
  [k \in {x \in DOMAIN tree : tree[x].t # "undefined"} |->
     IF tree[k].t = "object" THEN Obj(Defined(tree[k].v)) ELSE tree[k]]

\* the caller's initialData, as the heap holds it
InitialData == Deep(heap, "initialData")

\* C5: useForm: no step changes the caller's initialData, and after every
\* reset() FormData equals the initialData supplied at construction.
C5_OwnCopyOfInitialData ==
  [][variant = "useForm"
       => /\ Deep(heap', "initialData") = InitialData
          /\ useForm_reset
               => Defined(Deep(heap', data')) = Defined(InitialData)]_vars

\* useForm: no step changes the caller's initialData, and FormData shares no
\* object with it
useForm_NoAliasing ==
  [][variant = "useForm"
       => /\ Deep(heap', "initialData") = InitialData
          /\ data' \notin {"initialData", "initialData.user"}
          /\ heap'[data'].user.v \notin {"initialData", "initialData.user"}]_vars

\* C6: useForm: parseResult is schema.safeParse of the current FormData and
\* isValid is its success flag, in every state; and right after construction
\* from initial data that satisfy the schema, isValid is true.
C6_ParseResultCurrent ==
  variant = "useForm"
    => /\ parseResult = safeParse(heap, data)
       /\ isValid = parseResult.success
       /\ (last.op = "useForm" /\ schemaIssues(heap, "initialData") = <<>>)
            => isValid

\* useForm: parseResult is schema.safeParse of the current FormData
useForm_ParseResultFollowsData ==
  variant = "useForm" => parseResult = safeParse(heap, data)

\* C7: useFormComponent: once the component is mounted with data that
\* satisfy the schema, and FormData is left alone from then on, status
\* becomes 'valid' and stays 'valid', whether or not submit is called.
C7_EventuallyValid ==
  (pc = "mounted" /\ schemaIssues(heap, "input") = <<>>)
    ~> [](status = "valid")

\* a mounted form that is valid with no call ever made on the controller
C7_Witness ==
  /\ variant = "useFormComponent"
  /\ pc = "mounted"
  /\ last.op = "useFormComponent"
  /\ pending = <<>>
  /\ status = "valid"
  /\ parseResult.success

\* C8: in both variants getErrors(path) is the empty sequence for every path
\* when the parseResult it reads is a success: for every answer given to a
\* query, and for every path on the parseResult of a running controller.
C8_NoErrorsOnSuccess ==
  /\ (query.by # "none" /\ parseResult # Null /\ parseResult.success)
       => query.errors = <<>>
  /\ (variant = "useForm" /\ parseResult.success)
       => \A path \in Paths : useForm_getErrors(parseResult, path) = <<>>
  /\ (variant = "useFormComponent" /\ parseResult # Null
        /\ parseResult.success)
       => \A path \in Paths :
            useFormComponent_getErrors(parseResult, path) = <<>>

\* a nested path queried on a successful result: nothing came back
C8_Witness ==
  /\ variant = "getErrors"
  /\ query.by = "useFormComponent"
  /\ query.path = <<Str("a"), Str("b")>>
  /\ parseResult # Null /\ parseResult.success
  /\ query.errors = <<>>

\* what JavaScript's join('.') makes of each path of the model
Dotted(path) ==
  CASE path = <<>> -> ""
    [] path = <<Str("a")>> -> "a"
    [] path = <<Str("b")>> -> "b"
    [] path \in {<<Str("a"), Str("b")>>, <<Str("a.b")>>} -> "a.b"
    [] path \in {<<Str("a"), Num(0)>>, <<Str("a"), Str("0")>>} -> "a.0"

\* the other spelling of the path a.b
Respelled(path) ==
  IF path = <<Str("a.b")>> THEN <<Str("a"), Str("b")>> ELSE <<Str("a.b")>>

Asked(by, result, path) ==
  IF by = "useForm" THEN useForm_getErrors(result, path)
  ELSE useFormComponent_getErrors(result, path)

\* C9: in both variants, on a failing parseResult, getErrors(path) is the
\* issues whose path joined with '.' is the queried path joined with '.',
\* in their order in the parse result, and no other issue: an issue whose
\* joined path is longer or shorter than the queried one is left out, and
\* getErrors('a.b') is getErrors('a', 'b').
C9_ExactJoinedMatch ==
  (query.by # "none" /\ parseResult # Null /\ ~parseResult.success)
    => LET issues == parseResult.error.issues
           hits == {i \in 1..Len(issues) :
                      Dotted(issues[i].path) = Dotted(query.path)}
           n == Len(query.errors)
       IN  /\ n = Cardinality(hits)
           /\ \E f \in [1..n -> hits] :
                /\ \A i, j \in 1..n : i < j => f[i] < f[j]
                /\ \A i \in 1..n : query.errors[i] = issues[f[i]]
           /\ Dotted(query.path) = "a.b"
                => query.errors
                     = Asked(query.by, parseResult, Respelled(query.path))

\* getErrors('a.b') on issues at a.b (as two segments) and at a: the issue
\* at the two-segment path came back, the one at the shorter path did not
C9_Witness ==
  /\ variant = "getErrors"
  /\ query.by = "useForm"
  /\ query.path = <<Str("a.b")>>
  /\ parseResult = Failure(<<Issue(<<Str("a"), Str("b")>>, "Invalid"),
                             Issue(<<Str("a")>>, "Invalid")>>)
  /\ query.errors = <<Issue(<<Str("a"), Str("b")>>, "Invalid")>>

\* C11: useFormComponent: submit() decides on a parse of the FormData of
\* that moment, whatever status and parseResult say: when the FormData
\* satisfy the schema it invokes onSubmit once, with the parsed output, and
\* returns what the callback returned; when they do not, it invokes nothing
\* and raises.
C11_SubmitParsesAfresh ==
  [][useFormComponent_submit
       => IF schemaIssues(heap, "input") = <<>>
          THEN /\ last'.called = <<transform(heap, "input")>>
               /\ last'.ret = Returned
               /\ last'.threw = Null
          ELSE /\ last'.called = <<>>
               /\ last'.ret = Undefined
               /\ last'.threw # Null]_vars

\* a submit that went through while status said 'invalid' and parseResult
\* still held the failure of an older FormData
C11_Witness ==
  /\ variant = "useFormComponent"
  /\ last.op = "submit"
  /\ Len(last.called) = 1 /\ last.ret = Returned
  /\ status = "invalid"
  /\ parseResult # Null /\ ~parseResult.success

\* C12: in both variants a mutation of FormData leaves changedAt non-null
\* and hasChanged true, and they stay so until the next reset().
C12_ChangedAtTracksMutation ==
  [][/\ (last'.op = "mutate"
          /\ Defined(Deep(heap', FormRoot')) # Defined(FormData))
          => (changedAt' # Null /\ hasChanged')
     /\ (changedAt # Null /\ ~(useForm_reset \/ useFormComponent_reset))
          => changedAt' # Null]_vars

\* C13: useFormComponent: once setup has provided the context, the context's
\* status, parseResult, displayErrors, changedAt and hasChanged are the
\* controller's current ones, in every state.
C13_ContextCurrent ==
  (variant = "useFormComponent" /\ pc # "created")
    => /\ ctx.status = status
       /\ ctx.parseResult = parseResult
       /\ ctx.displayErrors = displayErrors
       /\ ctx.changedAt = changedAt
       /\ ctx.hasChanged = hasChanged

C15_StatusTransitions ==
  [][(variant = "useFormComponent" /\ status' # status)
       => \/ /\ status = "parsing"
             /\ status' \in {"valid", "invalid"}
             /\ \E i \in 1..Len(pending) : useFormComponent_resolve(i)
          \/ /\ status \in {"valid", "invalid"}
             /\ status' = "parsing"
             /\ queued
             /\ useFormComponent_watcher]_vars

\* pending without its i-th validation
Without(i) == SubSeq(pending, 1, i - 1) \o SubSeq(pending, i + 1, Len(pending))

\* C16: useFormComponent: no step withdraws a validation in flight except
\* its own resolution, a validation may resolve whatever its place among
\* those in flight, and each resolution stores its own result in
\* parseResult and status: the validation that resolves last decides them,
\* also when it was dispatched first.
C16_LastResolutionWins ==
  [][variant = "useFormComponent"
       => IF Len(pending') < Len(pending)
          THEN \E i \in 1..Len(pending) :
                 /\ pending' = Without(i)
                 /\ parseResult' = pending[i]
                 /\ status' = IF pending[i].success THEN "valid" ELSE "invalid"
          ELSE SubSeq(pending', 1, Len(pending)) = pending]_vars

\* at rest (nothing in flight, nothing scheduled) on FormData that fail the
\* schema, with status 'valid' and the parseResult of an older FormData
C16_Witness ==
  /\ variant = "useFormComponent"
  /\ pc = "mounted"
  /\ pending = <<>> /\ ~queued
  /\ schemaIssues(heap, "input") # <<>>
  /\ status = "valid"
  /\ parseResult # Null /\ parseResult.success
  /\ parseResult # safeParse(heap, "input")

\* C17: useFormComponent: a step that changes FormData leaves status,
\* parseResult and the validations in flight as they were and, once the
\* component is mounted, only schedules the watcher: until the watcher runs,
\* status keeps the value it had before the mutation.
C17_StatusLagsMutation ==
  [][(variant = "useFormComponent" /\ heap' # heap)
       => /\ status' = status
          /\ parseResult' = parseResult
          /\ pending' = pending
          /\ pc = "mounted" => queued']_vars

\* right after a mutation, the watcher scheduled and not yet run: status is
\* still 'valid' over FormData that fail the schema
C17_Witness ==
  /\ variant = "useFormComponent"
  /\ last.op = "mutate"
  /\ queued /\ pending = <<>>
  /\ status = "valid"
  /\ schemaIssues(heap, "input") # <<>>

\* the opposite case, also reachable: status is still 'invalid' over
\* FormData that satisfy the schema
useFormComponent_StillInvalid ==
  /\ variant = "useFormComponent"
  /\ last.op = "mutate"
  /\ queued /\ pending = <<>>
  /\ status = "invalid"
  /\ schemaIssues(heap, "input") = <<>>

\* C18: useFormComponent: from construction until a validation resolves,
\* whatever else happens, status is 'parsing', parseResult is null and
\* getErrors(path) is empty for every path: parseResult is null at
\* construction, only the resolution of a validation ends that, and while it
\* lasts status is 'parsing' and getErrors finds nothing.
C18_ParsingUntilFirstResolution ==
  /\ useFormComponent_Init => (parseResult = Null /\ status = "parsing")
  /\ []((variant = "useFormComponent" /\ parseResult = Null)
          => /\ status = "parsing"
             /\ \A path \in Paths :
                  useFormComponent_getErrors(parseResult, path) = <<>>)
  /\ [][(variant = "useFormComponent" /\ parseResult = Null
          /\ Len(pending') >= Len(pending))
         => parseResult' = Null]_vars

\* two validations in flight and none resolved yet, after a mutation and a
\* toggle: still no result
C18_Witness ==
  /\ variant = "useFormComponent"
  /\ Len(pending) = 2
  /\ last.op = "toggleDisplayErrors" /\ displayErrors
  /\ Deep(heap, "input") # Deep(heap, "initialInput")
  /\ parseResult = Null
  /\ status = "parsing"

\* C20: useFormComponent: in every state, status 'valid' comes with a
\* non-null successful parseResult and status 'invalid' with a non-null
\* failed one, however the validations in flight interleave.
C20_StatusAgreesWithResult ==
  variant = "useFormComponent"
    => /\ status = "valid" => (parseResult # Null /\ parseResult.success)
       /\ status = "invalid" => (parseResult # Null /\ ~parseResult.success)
       /\ status \in {"parsing", "valid", "invalid"}

\* one of two overlapping validations has resolved: status 'valid' with its
\* successful result, while a validation that will fail is still in flight
C20_Witness ==
  /\ variant = "useFormComponent"
  /\ status = "valid"
  /\ parseResult # Null /\ parseResult.success
  /\ Len(pending) = 1 /\ ~pending[1].success

\* both controllers were handed the caller's ref
SharedCell ==
  /\ variant = "twoForms"
  /\ \A c \in Forms : options[c].displayErrors = Obj("caller")

\* C19: two useFormComponent controllers handed the same displayErrors ref:
\* in every state both read the same value, and every write lands in both:
\* a reset() of either clears the flag for both, a toggle of either negates
\* it for both, a failed submit() of one that has mutateDisplayErrorsOnError
\* raises it for both, and a write by the caller is what both read next.
C19_SharedDisplayErrors ==
  /\ [](SharedCell => Read("A") = Read("B"))
  /\ [][SharedCell
         => \A c, d \in Forms :
              /\ twoForms_reset(c) => displayErrors'[displayErrorsRef(d)] = FALSE
              /\ twoForms_toggleDisplayErrors(c)
                   => displayErrors'[displayErrorsRef(d)] = ~Read(d)
              /\ (twoForms_submit(c) /\ ~safeParse(heap, Input(c)).success)
                   => displayErrors'[displayErrorsRef(d)]
                        = IF options[c].mutateDisplayErrorsOnError
                          THEN TRUE ELSE Read(d)
              /\ \A b \in BOOLEAN :
                   twoForms_writeDisplayErrors(b)
                     => displayErrors'[displayErrorsRef(d)] = b]_vars

\* a reset of A that found the flag raised: B reads it cleared
C19_Witness ==
  /\ SharedCell
  /\ last.op = "reset" /\ last.by = "A" /\ last.was
  /\ ~Read("B")

\* C21: useFormComponent: once mounted, status is 'parsing' only while a
\* validation is in flight; and when the component gets mounted and FormData
\* stop changing from some point on, status ends up in 'valid' or 'invalid'
\* for good.
C21_NeverStuckParsing ==
  /\ []((variant = "useFormComponent" /\ pc = "mounted" /\ status = "parsing")
          => pending # <<>>)
  /\ (<>(pc = "mounted") /\ <>[][heap' = heap]_vars)
       => <>[](status \in {"valid", "invalid"})

\* at rest after two validations overlapped: nothing in flight, nothing
\* scheduled, and a status that is no longer 'parsing' (it is 'invalid', the
\* verdict on FormData that a mutation has since made valid)
C21_Witness ==
  /\ variant = "useFormComponent"
  /\ pc = "mounted"
  /\ last.op = "mutate"
  /\ pending = <<>> /\ ~queued
  /\ status = "invalid"
  /\ schemaIssues(heap, "input") = <<>>

====
